---- MODULE Spec2Model ----
(***************************************************************************)
(* A model of adios2py: File (file.py), StepsProxy (steps_proxy.py), Step  *)
(* and its ArrayProxy (step.py), on top of an abstract ADIOS2 engine.      *)
(*                                                                         *)
(* A Python exception is a value: every operation is an operator that maps *)
(* a "world" record (the File object's fields, the engine's state, the     *)
(* engine calls made so far, the exception raised, the value returned) to  *)
(* the world after it.  `assert` statements raise AssertionError (the      *)
(* interpreter is run without -O, as the test-suite does).                 *)
(***************************************************************************)
EXTENDS Integers, Sequences, FiniteSets, TLC

\* ------------------------------------------------------------------ bounds

\* The most steps a writer puts into one container.
MaxSteps == 2

\* The longest index expression (number of selectors) the translation is checked on.
MaxIndexLen == 3

\* Variable names a client uses.
Names == {"a", "b"}

\* The buffers a client writes: a numpy dtype and a shape.
Kinds == { [dtype |-> "int64", shape |-> <<>>],
           [dtype |-> "float64", shape |-> <<2>>] }

NoVar == [none |-> TRUE]
NoData == [name |-> "", step |-> -1]
NoRet == [none |-> TRUE]

\* ------------------------------------------------------------------ worlds

\* File.__bool__
IsOpen(f) == f.engine /\ f.io

World(f, e) ==
    [file |-> f, eng |-> e, calls |-> <<>>, err |-> "none", msg |-> "", ret |-> NoRet,
     sel |-> <<>>]

Raise(w, e, m) == [w EXCEPT !.err = e, !.msg = m]

Call(w, c) == [w EXCEPT !.calls = Append(@, c)]

Failed(w) == w.err # "none"

\* ------------------------------------------------------------------ engine
\* The wrapped engine (adios2.bindings), as far as the wrapper relies on it:
\* a container is a sequence of steps, each mapping a name to a payload.

\* adios2's name for a numpy dtype (what Variable.Type() returns).
DtypeToAdios2(dt) ==
    CASE dt = "int64" -> [base |-> "int64", suffix_t |-> TRUE]
      [] dt = "float64" -> [base |-> "double", suffix_t |-> FALSE]
      [] dt = "float32" -> [base |-> "float", suffix_t |-> FALSE]
      [] dt = "int8" -> [base |-> "int8", suffix_t |-> TRUE]
      [] dt = "uint8" -> [base |-> "uint8", suffix_t |-> TRUE]

\* engine.Steps()
EngineSteps(e) == Len(e.data)

\* The statuses engine.BeginStep() may answer in this state.
BeginStepStatuses(f, e) ==
    IF f.mode = "w" THEN {"OK"}
    ELSE IF e.step + 1 < Len(e.data) THEN {"OK", "NotReady"}
    ELSE {"EndOfStream"}

\* engine.BeginStep() answering `status`.
EngineBeginStep(f, e, status) ==
    IF status # "OK" THEN e
    ELSE IF f.mode = "w"
    THEN [e EXCEPT !.step = Len(e.data),
                   !.data = Append(@, [n \in Names |-> NoData])]
    ELSE [e EXCEPT !.step = @ + 1]

\* ------------------------------------------------------------------ File

\* File._begin_step with `>` for `>=` in the test for the last step.
File_begin_step_one_more(w, status) ==
    IF w.file.in_step THEN Raise(w, "AssertionError", "")
    ELSE IF ~IsOpen(w.file) THEN Raise(w, "AssertionError", "")
    ELSE IF w.file.mode = "rra"
    THEN LET w1 == Call(w, "Steps")
         IN  IF w.file.current_step > EngineSteps(w.eng) - 1
             THEN Raise(w1, "EOFError", "")
             ELSE [w1 EXCEPT !.file.current_step = @ + 1,
                             !.file.in_step = TRUE]
    ELSE LET w1 == [Call(w, "BeginStep") EXCEPT
                        !.eng = EngineBeginStep(w.file, w.eng, status)]
         IN  IF status = "EndOfStream"
             THEN Raise(w1, "EOFError", "End of stream")
             ELSE IF status # "OK"
             THEN Raise(w1, "RuntimeError", "BeginStep failed")
             ELSE [Call(w1, "CurrentStep") EXCEPT
                        !.file.current_step = w1.eng.step,
                        !.file.in_step = TRUE]

\* File._begin_step; `status` is what the engine's BeginStep answers.
File_begin_step(w, status) ==
    IF w.file.in_step THEN Raise(w, "AssertionError", "")
    ELSE IF ~IsOpen(w.file) THEN Raise(w, "AssertionError", "")
    ELSE IF w.file.mode = "rra"
    THEN LET w1 == Call(w, "Steps")
         IN  IF w.file.current_step >= EngineSteps(w.eng) - 1
             THEN Raise(w1, "EOFError", "")
             ELSE [w1 EXCEPT !.file.current_step = @ + 1,
                             !.file.in_step = TRUE]
    ELSE LET w1 == [Call(w, "BeginStep") EXCEPT
                        !.eng = EngineBeginStep(w.file, w.eng, status)]
         IN  IF status = "EndOfStream"
             THEN Raise(w1, "EOFError", "End of stream")
             ELSE IF status # "OK"
             THEN Raise(w1, "RuntimeError", "BeginStep failed")
             ELSE [Call(w1, "CurrentStep") EXCEPT
                        !.file.current_step = w1.eng.step,
                        !.file.in_step = TRUE]

\* File._end_step without the call of the engine's EndStep.
File_end_step_no_engine_call(w) ==
    IF ~w.file.in_step THEN Raise(w, "AssertionError", "")
    ELSE [w EXCEPT !.file.in_step = FALSE]

\* File._end_step
File_end_step(w) ==
    IF ~w.file.in_step THEN Raise(w, "AssertionError", "")
    ELSE IF w.file.mode # "rra"
    THEN IF ~IsOpen(w.file) THEN Raise(w, "AssertionError", "")
         ELSE [Call(w, "EndStep") EXCEPT !.file.in_step = FALSE]
    ELSE [w EXCEPT !.file.in_step = FALSE]

\* File.close without `self._engine = None; self._io = None`.
File_close_keeps_engine(w) ==
    IF ~IsOpen(w.file) THEN Raise(w, "ValueError", "File is not open")
    ELSE [Call(Call(w, "Close"), "RemoveIO") EXCEPT !.eng.closes = @ + 1]

\* File.close
File_close(w) ==
    IF ~IsOpen(w.file) THEN Raise(w, "ValueError", "File is not open")
    ELSE [Call(Call(w, "Close"), "RemoveIO") EXCEPT
              !.eng.closes = @ + 1,
              !.file.engine = FALSE,
              !.file.io = FALSE]

\* File.__repr__
File_repr(f) == IF ~IsOpen(f) THEN "adios2py.File(closed)" ELSE "adios2py.File(filename, mode)"

\* ------------------------------------------------------------------ util

\* numpy's canonical name for a dtype string (np.dtype(type_str)).
NpDtype(type_str) ==
    CASE type_str = "double" -> "float64"
      [] type_str = "float" -> "float32"
      [] OTHER -> type_str

\* util.adios2_to_dtype; is_char_signed is the platform's.
adios2_to_dtype(t, is_char_signed) ==
    IF t.base = "char" /\ ~t.suffix_t
    THEN NpDtype(IF is_char_signed THEN "int8" ELSE "uint8")
    ELSE NpDtype(t.base)

\* ------------------------------------------------------------------ index expressions
\* A selector is an integer, a slice, an ellipsis or None; an optional
\* integer (a slice's start, stop, step) is <<>> (None) or <<n>>.

IntSel(i) == [k |-> "int", i |-> i, start |-> <<>>, stop |-> <<>>, step |-> <<>>]

SliceSel(a, b, c) == [k |-> "slice", i |-> 0, start |-> a, stop |-> b, step |-> c]

EllipsisSel == [k |-> "ellipsis", i |-> 0, start |-> <<>>, stop |-> <<>>, step |-> <<>>]

NoneSel == [k |-> "none", i |-> 0, start |-> <<>>, stop |-> <<>>, step |-> <<>>]

\* slice(None)
FullSlice == SliceSel(<<>>, <<>>, <<>>)

\* One bound of slice.indices(length): clamp `x` (None: `dflt`) into lower..upper.
SliceBound(x, length, lower, upper, dflt) ==
    IF x = <<>> THEN dflt
    ELSE IF x[1] < 0
    THEN IF x[1] + length < lower THEN lower ELSE x[1] + length
    ELSE IF x[1] > upper THEN upper ELSE x[1]

\* slice.indices(length), for a step other than 0: <<start, stop, step>>.
SliceIndices(sl, length) ==
    LET step == IF sl.step = <<>> THEN 1 ELSE sl.step[1]
        lower == IF step < 0 THEN -1 ELSE 0
        upper == IF step < 0 THEN length - 1 ELSE length
    IN  << SliceBound(sl.start, length, lower, upper, IF step < 0 THEN upper ELSE lower),
           SliceBound(sl.stop, length, lower, upper, IF step < 0 THEN lower ELSE upper),
           step >>

\* ResolveOne without the two asserts on a slice.
ResolveOne_no_slice_asserts(arg, length) ==
    IF arg.k = "none"
    THEN [err |-> "none", sel |-> <<0, length>>, dim |-> <<length>>]
    ELSE IF arg.k = "slice"
    THEN IF arg.step = <<0>>
         THEN [err |-> "ValueError", sel |-> <<0, 0>>, dim |-> <<>>]
         ELSE LET ix == SliceIndices(arg, length)
              IN  [err |-> "none", sel |-> <<ix[1], ix[2] - ix[1]>>,
                   dim |-> <<ix[2] - ix[1]>>]
    ELSE IF arg.k = "int"
    THEN [err |-> "none",
          sel |-> <<IF arg.i < 0 THEN arg.i + length ELSE arg.i, 1>>,
          dim |-> <<>>]
    ELSE [err |-> "NotImplementedError", sel |-> <<0, 0>>, dim |-> <<>>]

\* ResolveOne with an integer keeping its dimension (as a slice of length 1).
ResolveOne_int_keeps_dim(arg, length) ==
    IF arg.k = "int"
    THEN [err |-> "none",
          sel |-> <<IF arg.i < 0 THEN arg.i + length ELSE arg.i, 1>>,
          dim |-> <<1>>]
    ELSE IF arg.k = "none"
    THEN [err |-> "none", sel |-> <<0, length>>, dim |-> <<length>>]
    ELSE LET ix == SliceIndices(arg, length)
         IN  IF arg.k # "slice" \/ arg.step = <<0>> \/ ~(ix[1] < ix[2]) \/ ix[3] # 1
             THEN [err |-> "AssertionError", sel |-> <<0, 0>>, dim |-> <<>>]
             ELSE [err |-> "none", sel |-> <<ix[1], ix[2] - ix[1]>>,
                   dim |-> <<ix[2] - ix[1]>>]

\* File._read, the body of its loop: one selector against one dimension.
\* dim is what the selector adds to the result's shape.
ResolveOne(arg, length) ==
    IF arg.k = "none"
    THEN [err |-> "none", sel |-> <<0, length>>, dim |-> <<length>>]
    ELSE IF arg.k = "slice"
    THEN IF arg.step = <<0>>
         THEN [err |-> "ValueError", sel |-> <<0, 0>>, dim |-> <<>>]
         ELSE LET ix == SliceIndices(arg, length)
              IN  IF ~(ix[1] < ix[2]) \/ ix[3] # 1
                  THEN [err |-> "AssertionError", sel |-> <<0, 0>>, dim |-> <<>>]
                  ELSE [err |-> "none", sel |-> <<ix[1], ix[2] - ix[1]>>,
                        dim |-> <<ix[2] - ix[1]>>]
    ELSE IF arg.k = "int"
    THEN [err |-> "none",
          sel |-> <<IF arg.i < 0 THEN arg.i + length ELSE arg.i, 1>>,
          dim |-> <<>>]
    ELSE [err |-> "NotImplementedError", sel |-> <<0, 0>>, dim |-> <<>>]

RECURSIVE Flatten(_)
Flatten(ss) == IF ss = <<>> THEN <<>> ELSE Head(ss) \o Flatten(Tail(ss))

Min(S) == CHOOSE x \in S : \A y \in S : x <= y

\* File._read: the ellipsis replaced by full slices.
ExpandEllipsis(args, ndim) ==
    LET at == {j \in DOMAIN args : args[j].k = "ellipsis"}
    IN  IF Cardinality(at) # 1 THEN args
        ELSE LET j == Min(at)
                 n == ndim - Len(args) + 1
             IN  SubSeq(args, 1, j - 1)
                 \o [x \in 1..(IF n > 0 THEN n ELSE 0) |-> FullSlice]
                 \o SubSeq(args, j + 1, Len(args))

\* File._read, from the index to the selection: the engine-level (start, count)
\* of every dimension (the step dimension first) and the shape of the buffer.
Resolve(var_shape, index) ==
    LET n_ellipses == Cardinality({j \in DOMAIN index : index[j].k = "ellipsis"})
        args == ExpandEllipsis(index, Len(var_shape))
        one == [j \in DOMAIN var_shape |->
                   ResolveOne(IF j <= Len(args) THEN args[j] ELSE NoneSel, var_shape[j])]
        bad == {j \in DOMAIN var_shape : one[j].err # "none"}
    IN  IF n_ellipses > 1
        THEN [err |-> "IndexError", msg |-> "an index can only have a single ellipsis",
              sel |-> <<>>, arr_shape |-> <<>>]
        ELSE IF ~(Len(args) <= Len(var_shape))
        THEN [err |-> "AssertionError", msg |-> "", sel |-> <<>>, arr_shape |-> <<>>]
        ELSE IF bad # {}
        THEN [err |-> one[Min(bad)].err, msg |-> "", sel |-> <<>>, arr_shape |-> <<>>]
        ELSE [err |-> "none", msg |-> "",
              sel |-> [j \in DOMAIN var_shape |-> one[j].sel],
              arr_shape |-> Flatten([j \in DOMAIN var_shape |-> one[j].dim])]

\* ------------------------------------------------------------------ engine data

\* Whether the block selection (start, count per data dimension) lies in `shape`.
BlockInShape(block, shape) ==
    /\ Len(block) = Len(shape)
    /\ \A j \in DOMAIN shape :
          block[j][1] >= 0 /\ block[j][2] >= 1 /\ block[j][1] + block[j][2] <= shape[j]

\* engine.Get(var, data, Mode.Sync): the payloads of the selected steps, or no
\* answer (<<>>) when the engine refuses.  stepsel is <<>> when none was set:
\* the engine then reads its current step.
EngineGet(f, e, name, stepsel, block) ==
    LET v == e.vars[name]
        from == IF stepsel = <<>> THEN e.step ELSE stepsel[1]
        count == IF stepsel = <<>> THEN 1 ELSE stepsel[2]
    IN  IF /\ f.mode # "w"
           /\ from >= 0 /\ count >= 1 /\ from + count <= Len(e.data)
           /\ \A n \in from..(from + count - 1) : e.data[n + 1][name] # NoData
           /\ BlockInShape(block, v.shape)
        THEN <<[n \in 1..count |-> e.data[from + n][name]]>>
        ELSE <<>>

\* engine.Put(var, data, Mode.Sync) in the step being written.
EnginePut(f, e, name, buf) ==
    IF f.mode = "w" /\ e.vars[name].type = DtypeToAdios2(buf.dtype)
    THEN <<[e EXCEPT !.data[e.step + 1][name] = buf.val]>>
    ELSE <<>>

\* ------------------------------------------------------------------ File, data

\* StepAllowed without the comparison with the current step.
StepAllowed_any_step(f, sel0) == f.mode = "rra" \/ f.in_step

\* File._read, the mode's rule for the step selection sel0 = (start, count):
\* any in 'rra' mode, else only the current step of a file in a step.
StepAllowed(f, sel0) ==
    f.mode = "rra" \/ (f.in_step /\ sel0 = <<f.current_step, 1>>)

\* File._read: the step selection given to the variable, <<>> when none is
\* (var.SetStepSelection(sel[0]) in 'rra' mode only).
StepSelection(f, sel0) == IF f.mode = "rra" THEN sel0 ELSE <<>>

\* File._read with the block selection set before the step is validated.
File_read_selects_first(w, name, index) ==
    IF ~IsOpen(w.file) THEN Raise(w, "AssertionError", "")
    ELSE LET w1 == Call(w, "InquireVariable")
             var == w.eng.vars[name]
         IN
         IF var = NoVar THEN Raise(w1, "ValueError", "Variable not found")
         ELSE
         LET dtype == adios2_to_dtype(var.type, TRUE)
             var_shape == <<EngineSteps(w.eng)>> \o var.shape
             r == Resolve(var_shape, index)
             w2 == [Call(Call(Call(w1, "Type"), "Steps"), "Shape") EXCEPT !.sel = r.sel]
         IN
         IF r.err # "none" THEN Raise(w2, r.err, r.msg)
         ELSE
         LET w3 == IF Len(r.sel) > 1 THEN Call(w2, "SetSelection") ELSE w2
             w4 == IF w.file.mode = "rra" THEN Call(w3, "SetStepSelection") ELSE w3
             got == EngineGet(w.file, w.eng, name, StepSelection(w.file, r.sel[1]),
                              Tail(r.sel))
             w5 == Call(w4, "Get")
         IN  IF ~StepAllowed(w.file, r.sel[1])
             THEN Raise(w3, "IndexError", "Trying to access non-current step in streaming mode")
             ELSE IF got = <<>> THEN Raise(w5, "EngineError", "")
             ELSE [w5 EXCEPT !.ret = [dtype |-> dtype, shape |-> r.arr_shape,
                                      steps |-> got[1], block |-> Tail(r.sel)]]

\* File._read(name, index)
File_read(w, name, index) ==
    IF ~IsOpen(w.file) THEN Raise(w, "AssertionError", "")
    ELSE LET w1 == Call(w, "InquireVariable")
             var == w.eng.vars[name]
         IN
         IF var = NoVar THEN Raise(w1, "ValueError", "Variable not found")
         ELSE
         LET dtype == adios2_to_dtype(var.type, TRUE)
             var_shape == <<EngineSteps(w.eng)>> \o var.shape
             r == Resolve(var_shape, index)
             w2 == [Call(Call(Call(w1, "Type"), "Steps"), "Shape") EXCEPT !.sel = r.sel]
         IN
         IF r.err # "none" THEN Raise(w2, r.err, r.msg)
         ELSE IF ~StepAllowed(w.file, r.sel[1])
         THEN Raise(w2, "IndexError", "Trying to access non-current step in streaming mode")
         ELSE
         LET w3 == IF w.file.mode = "rra" THEN Call(w2, "SetStepSelection") ELSE w2
             w4 == IF Len(r.sel) > 1 THEN Call(w3, "SetSelection") ELSE w3
             got == EngineGet(w.file, w.eng, name, StepSelection(w.file, r.sel[1]),
                              Tail(r.sel))
             w5 == Call(w4, "Get")
         IN  IF got = <<>> THEN Raise(w5, "EngineError", "")
             ELSE [w5 EXCEPT !.ret = [dtype |-> dtype, shape |-> r.arr_shape,
                                      steps |-> got[1], block |-> Tail(r.sel)]]

\* ShapeMatches without the comparison.
ShapeMatches_unchecked(var, buf) == TRUE

\* File._write: assert tuple(var.Shape()) == data.shape
ShapeMatches(var, buf) == var.shape = buf.shape

\* File._write(name, data) past its check of the step; buf is np.asarray(data):
\* its dtype, shape and payload.
File_write_in_step(w, name, buf) ==
    IF ~IsOpen(w.file) THEN Raise(w, "AssertionError", "")
    ELSE LET w1 == Call(w, "InquireVariable")
             w2 == IF w.eng.vars[name] # NoVar THEN w1
                   ELSE [Call(w1, "DefineVariable") EXCEPT
                            !.eng.vars[name] = [type |-> DtypeToAdios2(buf.dtype),
                                                shape |-> buf.shape]]
             w3 == Call(w2, "Shape")
         IN  IF ~ShapeMatches(w2.eng.vars[name], buf) THEN Raise(w3, "AssertionError", "")
             ELSE LET put == EnginePut(w3.file, w3.eng, name, buf)
                      w4 == Call(w3, "Put")
                  IN  IF put = <<>> THEN Raise(w4, "EngineError", "")
                      ELSE [w4 EXCEPT !.eng = put[1]]

\* File._write without its check of the step.
File_write_no_step_check(w, name, buf) == File_write_in_step(w, name, buf)

\* File._write(name, data)
File_write(w, name, buf) ==
    IF ~w.file.in_step
    THEN Raise(w, "ValueError", "Data needs to be written inside an active step.")
    ELSE File_write_in_step(w, name, buf)

\* File.current_step
File_current_step(w) ==
    IF ~w.file.in_step THEN Raise(w, "AssertionError", "")
    ELSE [w EXCEPT !.ret = [step |-> w.file.current_step]]

\* ------------------------------------------------------------------ File, attributes
\* An attribute's full name is a path, a sequence of components joined by "/"
\* in the source; a value is an array: its dtype, its shape and its elements
\* (numerals, "nan" or text).

NoAttr == [none |-> TRUE]

\* The variables an attribute may be scoped to (<<>>: None, the container) and
\* the names a client uses.
AttrVariables == {<<>>, <<"a">>}

AttrNames == {<<"x">>, <<"a", "x">>}

\* The full names the io may hold.
AttrKeys == {v \o n : v \in AttrVariables, n \in AttrNames}

\* An io without attributes.
NoAttrs == [k \in AttrKeys |-> NoAttr]

Scalar(dtype, e) == [dtype |-> dtype, shape |-> <<>>, elems |-> <<e>>]

\* The values a client writes.
AttrValues ==
    {Scalar("int64", "1"), Scalar("int64", "2"), Scalar("float64", "1"),
     Scalar("float64", "nan"), Scalar("str", "s"),
     [dtype |-> "int64", shape |-> <<2>>, elems |-> <<"1", "2">>]}

\* np.issubdtype(dtype, np.floating) or np.issubdtype(dtype, np.complexfloating)
IsFloating(dtype) == dtype \in {"float32", "float64", "complex64", "complex128"}

\* np.array_equal(a1, a2, equal_nan): eq, or err when np.isnan is applied to
\* text.  Numbers compare by value whatever their dtype; nan equals nan only
\* with equal_nan.
ArrayEqual(a1, a2, equal_nan) ==
    IF a1.shape # a2.shape THEN [err |-> "none", eq |-> FALSE]
    ELSE IF equal_nan /\ (a1.dtype = "str" \/ a2.dtype = "str")
    THEN [err |-> "TypeError", eq |-> FALSE]
    ELSE [err |-> "none",
          eq |-> \A j \in DOMAIN a1.elems :
                    /\ a1.elems[j] = a2.elems[j]
                    /\ (a1.dtype = "str") = (a2.dtype = "str")
                    /\ a1.elems[j] = "nan" => equal_nan]

\* f"{variable}/{name}" if variable is not None else name
AttrName(name, variable) == variable \o name

\* io.DefineAttribute(name, data, variable): the attribute is stored under the
\* variable's name, "/" and name, or under name for the container.
EngineDefineAttribute(e, name, data, variable) ==
    [e EXCEPT !.attrs[variable \o name] = data]

\* File._read_attribute(name, variable)
File_read_attribute(w, name, variable) ==
    IF ~IsOpen(w.file) THEN Raise(w, "AssertionError", "")
    ELSE LET w1 == Call(w, "InquireAttribute")
             attr == w.eng.attrs[AttrName(name, variable)]
         IN  IF attr = NoAttr THEN Raise(w1, "KeyError", "Attribute not found")
             ELSE [w1 EXCEPT !.ret = attr]

\* File._write_attribute without the test for an equal value.
File_write_attribute_always_defines(w, name, data, variable) ==
    LET r == File_read_attribute(w, name, variable)
    IN  IF Failed(r) /\ r.err # "KeyError" THEN r
        ELSE [Call([r EXCEPT !.err = "none", !.msg = "", !.ret = NoRet], "DefineAttribute")
                 EXCEPT !.eng = EngineDefineAttribute(w.eng, name, data, variable)]

\* File._write_attribute(name, data, variable)
File_write_attribute(w, name, data, variable) ==
    LET r == File_read_attribute(w, name, variable)
        define == [Call([r EXCEPT !.err = "none", !.msg = "", !.ret = NoRet], "DefineAttribute")
                      EXCEPT !.eng = EngineDefineAttribute(w.eng, name, data, variable)]
    IN  IF r.err = "KeyError" THEN define
        ELSE IF Failed(r) THEN r
        ELSE LET same == ArrayEqual(r.ret, data, IsFloating(r.ret.dtype))
             IN  IF same.err # "none" THEN Raise([r EXCEPT !.ret = NoRet], same.err, "")
                 ELSE IF same.eq THEN [r EXCEPT !.ret = NoRet]
                 ELSE define

\* ------------------------------------------------------------------ Step (step.py)

\* Step._read(name) of the Step object for step `step`.  File._read takes
\* (name, index): the call File._read(name, step_selection=...) passes a keyword
\* it does not have, and File._read(name) leaves out `index`; either way the
\* call itself raises TypeError and File._read's body does not run.
Step_read(w, step, name) ==
    IF w.file.mode = "rra" THEN Raise(w, "TypeError", "unexpected keyword argument")
    ELSE LET c == File_current_step(w)
         IN  IF Failed(c) THEN c
             ELSE IF step # c.ret.step THEN Raise(w, "AssertionError", "")
             ELSE Raise(w, "TypeError", "missing required argument")

\* ArrayProxy.__array__ (step.py): data = self._step._read(self._name)
ArrayProxy_array(w, step, name) == Step_read(w, step, name)

\* Step.__getitem__(name): the ArrayProxy's dtype and shape.
Step_getitem(w, name) ==
    IF w.file.mode \notin {"r", "rra"}
    THEN Raise(w, "ValueError", "Cannot read variables in mode")
    ELSE IF ~IsOpen(w.file) THEN Raise(w, "AssertionError", "")
    ELSE LET w1 == Call(w, "InquireVariable")
             var == w.eng.vars[name]
         IN  IF var = NoVar THEN Raise(w1, "KeyError", "Variable not found")
             ELSE [Call(Call(w1, "Type"), "Shape") EXCEPT
                      !.ret = [dtype |-> adios2_to_dtype(var.type, TRUE),
                               shape |-> var.shape]]

\* ------------------------------------------------------------------ StepsProxy

\* The `finally` of StepsProxy.__iter__: end the step the file is in.  An
\* exception of _end_step replaces the one being propagated.
Iter_finally(w) ==
    IF ~w.file.in_step THEN w
    ELSE LET e == File_end_step(w) IN IF Failed(e) THEN e ELSE [e EXCEPT !.err = w.err, !.msg = w.msg]

\* Iter_advance without the `except EOFError: break`.
Iter_advance_no_except(w, status) ==
    LET b == File_begin_step(w, status)
    IN  IF Failed(b) THEN Iter_finally(b)
        ELSE LET c == File_current_step(b)
             IN  IF Failed(c) THEN Iter_finally(c)
                 ELSE [c EXCEPT !.ret = [yield |-> c.ret.step]]

\* StepsProxy.__iter__ from the top of its loop to the next yield or to its
\* end: ret.yield is the step of the Step object yielded, ret.done the loop
\* left on EOFError.
Iter_advance(w, status) ==
    LET b == File_begin_step(w, status)
    IN  IF b.err = "EOFError"
        THEN [Iter_finally([b EXCEPT !.err = "none", !.msg = ""]) EXCEPT !.ret = [done |-> TRUE]]
        ELSE IF Failed(b) THEN Iter_finally(b)
        ELSE LET c == File_current_step(b)
             IN  IF Failed(c) THEN Iter_finally(c)
                 ELSE [c EXCEPT !.ret = [yield |-> c.ret.step]]

\* StepsProxy.__iter__ resumed after a yield.
Iter_resume(w, status) ==
    LET e == File_end_step(w)
    IN  IF Failed(e) THEN Iter_finally(e) ELSE Iter_advance(e, status)

\* Iter_close without the `finally`.
Iter_close_no_finally(w) == w

\* StepsProxy.__iter__ closed at its yield (the loop was left by break and the
\* generator dropped): GeneratorExit runs the finally.
Iter_close(w) == Iter_finally(w)

\* StepsProxy.next, up to its yield (the context manager's __enter__).
Next_enter(w, status) ==
    LET b == File_begin_step(w, status)
    IN  IF Failed(b) THEN b
        ELSE LET c == File_current_step(b)
             IN  IF Failed(c) THEN c ELSE [c EXCEPT !.ret = [yield |-> c.ret.step]]

\* StepsProxy.next after its yield, the with-body having finished normally.
Next_exit(w) == File_end_step(w)

\* StepsProxy.next after its yield, the with-body having raised: the exception
\* is thrown into the generator at the yield, which has no handler.
Next_exit_raise(w) == Raise(w, "BodyError", "")

\* StepsProxy.__len__
Steps_len(w) ==
    IF ~IsOpen(w.file) THEN Raise(w, "AssertionError", "")
    ELSE [Call(w, "Steps") EXCEPT !.ret = [len |-> EngineSteps(w.eng)]]

\* StepsProxy.__getitem__(index)
Steps_getitem(w, index) ==
    IF w.file.mode # "rra"
    THEN Raise(w, "IndexError", "Selecting steps by index is only supported in 'rra' mode")
    ELSE IF index < 0 THEN Raise(w, "IndexError", "Index out of range")
    ELSE LET n == Steps_len(w)
         IN  IF Failed(n) THEN n
             ELSE IF index >= n.ret.len THEN Raise(n, "IndexError", "Index out of range")
             ELSE [n EXCEPT !.ret = [yield |-> index]]

\* ------------------------------------------------------------------ state

VARIABLES
    file,         \* the File object: _mode, _engine and _io (set or None), _current_step, _in_step
    eng,          \* the engine and its container: variables, steps of data, current step
    gen,          \* which File object this is: 0 the first, 1 a reader of the container it left
    pc,           \* where the client is: "idle", "iter" (a for-loop body), "next" (a with-body)
    iterYielded,  \* the steps the current (or last) iteration over file.steps yielded
    iterBase,     \* how many steps had been begun on this File when that iteration started
    iterPrev,     \* whether that iteration came right after one left by break
    begun,        \* how many _begin_step calls on this File succeeded
    stepObjs,     \* the steps of the Step objects of this File the client holds
    written,      \* per step, the payload the writer wrote for each name
    writtenKind,  \* per name, the dtype and shape of the first buffer written
    key,          \* the index expression a client of the index translation reads with
    stepCall,     \* the last BeginStep or EndStep call made on the engine, BeginStep with its status
    last          \* the last operation: its name, exception, engine calls, result

vars == <<file, eng, gen, pc, iterYielded, iterBase, iterPrev, begun, stepObjs, written, writtenKind, key, stepCall, last>>

Last(op, w, name, step) ==
    [op |-> op, err |-> w.err, msg |-> w.msg, calls |-> w.calls, ret |-> w.ret,
     sel |-> w.sel, name |-> name, step |-> step]

\* No BeginStep or EndStep call has been made on the engine.
NoStepCall == [call |-> "", status |-> ""]

IsStepCall(c) == c \in {"BeginStep", "EndStep"}

\* The BeginStep and EndStep calls among `calls`, in order; `status` is what
\* the BeginStep among them answered.
StepCalls(calls, status) ==
    LET q == SelectSeq(calls, IsStepCall)
    IN  [j \in DOMAIN q |->
            [call |-> q[j], status |-> IF q[j] = "BeginStep" THEN status ELSE ""]]

\* The last BeginStep or EndStep call on the engine once the calls of w are made.
StepCallAfter(w, status) ==
    LET q == StepCalls(w.calls, status)
    IN  IF q = <<>> THEN stepCall ELSE q[Len(q)]

\* File.__init__ and the class attributes _current_step = -1, _in_step = False.
File_init(m) == [mode |-> m, engine |-> TRUE, io |-> TRUE, current_step |-> -1, in_step |-> FALSE]

\* io.Open on an existing container: the variables are those with data.
EngineOpen(e) ==
    [vars |-> [n \in Names |->
                  IF \E j \in DOMAIN e.data : e.data[j][n] # NoData THEN e.vars[n] ELSE NoVar],
     data |-> e.data, step |-> -1, closes |-> 0, attrs |-> e.attrs]

\* The payload of variable `name` in step n (from 0): the contents of the
\* buffer, abstracted to an identifier that differs from step to step and
\* from name to name.
Payload(name, n) == [name |-> name, step |-> n]

KindOf(name) ==
    IF name = "a" THEN [dtype |-> "int64", shape |-> <<>>]
    ELSE [dtype |-> "float64", shape |-> <<2>>]

\* A container of n steps, every name written in every step.
Container(n) == [j \in 1..n |-> [name \in Names |-> Payload(name, j - 1)]]

\* The engine on a container that holds `data`.
EngineOn(data) ==
    [vars |-> [name \in Names |->
                  IF data = <<>> THEN NoVar
                  ELSE [type |-> DtypeToAdios2(KindOf(name).dtype),
                        shape |-> KindOf(name).shape]],
     data |-> data, step |-> -1, closes |-> 0, attrs |-> NoAttrs]

InitFile(m, e, wr, wk) ==
    /\ file = File_init(m)
    /\ eng = e
    /\ gen = 0
    /\ pc = "idle"
    /\ iterYielded = <<>>
    /\ iterBase = 0
    /\ iterPrev = FALSE
    /\ begun = 0
    /\ stepObjs = {}
    /\ written = wr
    /\ writtenKind = wk
    /\ key = <<>>
    /\ stepCall = NoStepCall
    /\ last = Last("init", World(file, eng), "", -1)

\* A File opened for reading on a container of up to MaxSteps steps.
Init ==
    \E m \in {"r", "rra"}, n \in 0..MaxSteps :
         InitFile(m, EngineOn(Container(n)), Container(n),
                  [name \in Names |-> IF n = 0 THEN NoVar ELSE KindOf(name)])

\* A File opened for writing on a new container.
InitRT == InitFile("w", EngineOn(<<>>), <<>>, [n \in Names |-> NoVar])

\* The statuses the engine may answer if _begin_step reaches it.
Statuses == IF file.in_step \/ ~IsOpen(file) \/ file.mode = "rra" THEN {"OK"}
            ELSE BeginStepStatuses(file, eng)

\* A writer begins at most MaxSteps steps.
MayBegin == file.mode = "w" /\ ~file.in_step /\ IsOpen(file) => Len(eng.data) < MaxSteps

W0 == World(file, eng)

\* 1 if the run that led to w began a step (a run begins at most one, and
\* beginning a step always moves current_step).
Began(w) ==
    IF w.file.in_step /\ (~file.in_step \/ w.file.current_step # file.current_step)
    THEN 1 ELSE 0

\* The index expressions a client reads with.
StepSels ==
    {IntSel(n) : n \in -1..MaxSteps}
    \cup {SliceSel(<<a>>, <<b>>, <<>>) : a \in 0..MaxSteps, b \in 1..MaxSteps}
    \cup {FullSlice, NoneSel, EllipsisSel}

DataSels == {IntSel(0), SliceSel(<<0>>, <<1>>, <<>>), EllipsisSel, SliceSel(<<>>, <<>>, <<2>>)}

Indexes ==
    {<<>>} \cup {<<s>> : s \in StepSels} \cup {<<s, d>> : s \in StepSels, d \in DataSels}
    \cup {<<IntSel(0), IntSel(0), IntSel(0)>>}

\* ------------------------------------------------------------------ actions

Keep == UNCHANGED <<gen, written, writtenKind, key>>

\* file._begin_step()
BeginStep ==
    /\ pc = "idle" /\ MayBegin
    /\ \E st \in Statuses :
         LET w == File_begin_step(W0, st)
         IN  /\ file' = w.file /\ eng' = w.eng
             /\ begun' = begun + Began(w)
             /\ last' = Last("begin_step", w, st, -1)
             /\ stepCall' = StepCallAfter(w, st)
    /\ UNCHANGED <<pc, iterYielded, iterBase, iterPrev, stepObjs>> /\ Keep

\* file._end_step()
EndStep ==
    /\ pc = "idle"
    /\ LET w == File_end_step(W0)
       IN  /\ file' = w.file /\ eng' = w.eng
           /\ last' = Last("end_step", w, "", -1)
           /\ stepCall' = StepCallAfter(w, "")
    /\ UNCHANGED <<pc, iterYielded, iterBase, iterPrev, begun, stepObjs>> /\ Keep

\* file.close()
Close ==
    /\ pc = "idle"
    /\ LET w == File_close(W0)
       IN  /\ file' = w.file /\ eng' = w.eng
           /\ last' = Last("close", w, "", -1)
           /\ stepCall' = StepCallAfter(w, "")
    /\ UNCHANGED <<pc, iterYielded, iterBase, iterPrev, begun, stepObjs>> /\ Keep

\* File(filename, m) on the container a closed File has left.
Open ==
    /\ pc = "idle" /\ ~IsOpen(file) /\ gen = 0
    /\ \E m \in {"r", "rra"} :
         /\ file' = File_init(m)
         /\ eng' = EngineOpen(eng)
         /\ last' = Last("open", World(file', eng'), "", -1)
    /\ gen' = 1 /\ stepCall' = NoStepCall
    /\ pc' = "idle" /\ iterYielded' = <<>> /\ iterBase' = 0 /\ iterPrev' = FALSE
    /\ begun' = 0 /\ stepObjs' = {}
    /\ UNCHANGED <<written, writtenKind, key>>

\* The outcome of a generator run that ends in a yield, a return or a raise.
Ran(op, w, st, where) ==
    /\ file' = w.file /\ eng' = w.eng
    /\ begun' = begun + Began(w)
    /\ last' = Last(op, w, st, -1)
    /\ stepCall' = StepCallAfter(w, st)
    /\ IF ~Failed(w) /\ "yield" \in DOMAIN w.ret
       THEN /\ pc' = where
            /\ stepObjs' = stepObjs \cup {w.ret.yield}
       ELSE /\ pc' = "idle"
            /\ stepObjs' = stepObjs

\* for step in file.steps: up to the first pass of the body
IterStart ==
    /\ pc = "idle" /\ MayBegin
    /\ \E st \in Statuses :
         LET w == Iter_advance(W0, st)
         IN  /\ Ran("iter", w, st, "iter")
             /\ iterYielded' = IF pc' = "iter" THEN <<w.ret.yield>> ELSE <<>>
    /\ iterBase' = begun /\ iterPrev' = (last.op = "iter_break")
    /\ Keep

\* the body finished: the loop asks for the next step
IterNext ==
    /\ pc = "iter"
    /\ file.mode = "w" => Len(eng.data) < MaxSteps
    /\ \E st \in (IF file.mode = "rra" THEN {"OK"} ELSE BeginStepStatuses(file, eng)) :
         LET w == Iter_resume(W0, st)
         IN  /\ Ran("iter", w, st, "iter")
             /\ iterYielded' = IF pc' = "iter" THEN Append(iterYielded, w.ret.yield)
                               ELSE iterYielded
    /\ UNCHANGED <<iterBase, iterPrev>> /\ Keep

\* break: the loop drops the generator, which CPython closes at once
IterBreak ==
    /\ pc = "iter"
    /\ LET w == Iter_close(W0)
       IN  /\ file' = w.file /\ eng' = w.eng
           /\ last' = Last("iter_break", w, "", -1)
           /\ stepCall' = StepCallAfter(w, "")
    /\ pc' = "idle"
    /\ UNCHANGED <<iterYielded, iterBase, iterPrev, begun, stepObjs>> /\ Keep

\* with file.steps.next() as step: up to the body
NextEnter ==
    /\ pc = "idle" /\ MayBegin
    /\ \E st \in Statuses : Ran("next", Next_enter(W0, st), st, "next")
    /\ UNCHANGED <<iterYielded, iterBase, iterPrev>> /\ Keep

\* the with-body finished
NextExit ==
    /\ pc = "next"
    /\ LET w == Next_exit(W0)
       IN  /\ file' = w.file /\ eng' = w.eng
           /\ last' = Last("next_exit", w, "", -1)
           /\ stepCall' = StepCallAfter(w, "")
    /\ pc' = "idle"
    /\ UNCHANGED <<iterYielded, iterBase, iterPrev, begun, stepObjs>> /\ Keep

\* the with-body raised
NextExitRaise ==
    /\ pc = "next"
    /\ LET w == Next_exit_raise(W0)
       IN  /\ file' = w.file /\ eng' = w.eng
           /\ last' = Last("next_exit", w, "", -1)
           /\ stepCall' = StepCallAfter(w, "")
    /\ pc' = "idle"
    /\ UNCHANGED <<iterYielded, iterBase, iterPrev, begun, stepObjs>> /\ Keep

\* file.steps[i]
StepsGetitem ==
    /\ \E i \in -1..MaxSteps :
         LET w == Steps_getitem(W0, i)
         IN  /\ last' = Last("steps_getitem", w, "", i)
             /\ stepObjs' = IF Failed(w) THEN stepObjs ELSE stepObjs \cup {i}
    /\ UNCHANGED <<file, eng, stepCall, pc, iterYielded, iterBase, iterPrev, begun>> /\ Keep

\* file._read(name, index)
Read ==
    /\ \E name \in Names, index \in Indexes :
         last' = Last("read", File_read(W0, name, index), name, -1)
    /\ UNCHANGED <<file, eng, stepCall, pc, iterYielded, iterBase, iterPrev, begun, stepObjs>> /\ Keep

\* step[name], then its dtype and shape, of a Step object held
StepGetitem ==
    /\ \E s \in stepObjs, name \in Names :
         last' = Last("step_getitem", Step_getitem(W0, name), name, s)
    /\ UNCHANGED <<file, eng, stepCall, pc, iterYielded, iterBase, iterPrev, begun, stepObjs>> /\ Keep

\* np.asarray(step[name]): the data of a Step object held
StepRead ==
    /\ \E s \in stepObjs, name \in Names :
         LET p == Step_getitem(W0, name)
         IN  last' = Last("step_read", IF Failed(p) THEN p ELSE ArrayProxy_array(W0, s, name),
                          name, s)
    /\ UNCHANGED <<file, eng, stepCall, pc, iterYielded, iterBase, iterPrev, begun, stepObjs>> /\ Keep

\* What a client has handed to the writer so far: wr with val noted for
\* variable `name` in step n (from 0).
Recorded(wr, n, name, val) ==
    LET len == IF n + 1 > Len(wr) THEN n + 1 ELSE Len(wr)
        padded == [j \in 1..len |-> IF j <= Len(wr) THEN wr[j] ELSE [x \in Names |-> NoData]]
    IN  [padded EXCEPT ![n + 1][name] = val]

\* file._write(name, data) (also step.write).  A client writes a variable at
\* most once in a step; the payload tells the name and the step apart.
WriteOf(name, kind) ==
    LET buf == [dtype |-> kind.dtype, shape |-> kind.shape,
                val |-> Payload(name, file.current_step)]
        w == File_write(W0, name, buf)
        put == ~Failed(w)
    IN  /\ file.mode = "w" /\ file.in_step /\ IsOpen(file)
              => eng.data[eng.step + 1][name] = NoData
        /\ file' = w.file /\ eng' = w.eng
        /\ last' = Last("write", w, name, -1)
        /\ stepCall' = StepCallAfter(w, "")
        /\ written' = IF put THEN Recorded(written, file.current_step, name, buf.val)
                      ELSE written
        /\ writtenKind' = IF put /\ writtenKind[name] = NoVar
                          THEN [writtenKind EXCEPT ![name] = kind] ELSE writtenKind
        /\ UNCHANGED <<gen, pc, iterYielded, iterBase, iterPrev, begun, stepObjs, key>>

Write == \E name \in Names, kind \in Kinds : WriteOf(name, kind)

\* file._read(name, (n,)): all of step n
ReadStep ==
    /\ \E name \in Names, n \in 0..MaxSteps :
         last' = Last("read", File_read(W0, name, <<IntSel(n)>>), name, n)
    /\ UNCHANGED <<file, eng, stepCall, pc, iterYielded, iterBase, iterPrev, begun, stepObjs>> /\ Keep

Next ==
    \/ BeginStep \/ EndStep \/ Close
    \/ IterStart \/ IterNext \/ IterBreak
    \/ NextEnter \/ NextExit \/ NextExitRaise
    \/ StepsGetitem \/ Read \/ StepGetitem \/ StepRead

Spec == Init /\ [][Next]_vars

\* Write a container, close it, read it back.
NextRT ==
    \/ Close \/ Open
    \/ NextEnter \/ NextExit
    \/ Write \/ ReadStep \/ StepRead

SpecRT == InitRT /\ [][NextRT]_vars

\* ------------------------------------------------------------------ steps

\* A File in any mode: a reader on a container of up to MaxSteps steps, or a
\* writer on a new one.
InitSteps ==
    \/ Init
    \/ InitRT

\* Steps begun and ended by hand, by steps.next() and by iteration.
NextSteps ==
    \/ BeginStep \/ EndStep \/ Close
    \/ IterStart \/ IterNext \/ IterBreak
    \/ NextEnter \/ NextExit \/ NextExitRaise

SpecSteps == InitSteps /\ [][NextSteps]_vars

\* ------------------------------------------------------------------ index translation

\* The selectors of the index expressions the translation is checked on.
KeySels ==
    {IntSel(-1), IntSel(0), IntSel(1), IntSel(3),
     FullSlice, SliceSel(<<1>>, <<>>, <<>>), SliceSel(<<0>>, <<2>>, <<>>),
     SliceSel(<<-1>>, <<>>, <<>>), SliceSel(<<1>>, <<1>>, <<>>),
     SliceSel(<<>>, <<>>, <<2>>),
     EllipsisSel, NoneSel}

RECURSIVE KeysOfLen(_)
KeysOfLen(n) ==
    IF n = 0 THEN {<<>>}
    ELSE {Append(k, s) : k \in KeysOfLen(n - 1), s \in KeySels}

Keys == UNION {KeysOfLen(n) : n \in 0..MaxIndexLen}

\* The shapes, step dimension first, of the variables the keys are applied to.
KeyShapes == {<<2>>, <<1, 2>>, <<2, 3>>, <<3, 2>>, <<2, 1, 3>>}

\* The engine on a container whose variable "a" has shape S[2..] in each of
\* its S[1] steps.
KeyEngine(S) ==
    [vars |-> [n \in Names |->
                  IF n = "a" THEN [type |-> DtypeToAdios2("int64"), shape |-> Tail(S)]
                  ELSE NoVar],
     data |-> [j \in 1..S[1] |-> [n \in Names |-> IF n = "a" THEN Payload(n, j - 1) ELSE NoData]],
     step |-> -1, closes |-> 0, attrs |-> NoAttrs]

\* The shape, step dimension first, of variable "a".
VarShape == <<EngineSteps(eng)>> \o eng.vars["a"].shape

\* A File in 'rra' mode on a variable of some shape, and a key to read it with.
InitIndex ==
    \E S \in KeyShapes, k \in Keys :
        /\ file = File_init("rra")
        /\ eng = KeyEngine(S)
        /\ gen = 0 /\ pc = "idle"
        /\ iterYielded = <<>> /\ iterBase = 0 /\ iterPrev = FALSE
        /\ begun = 0 /\ stepObjs = {}
        /\ written = <<>> /\ writtenKind = [n \in Names |-> NoVar]
        /\ key = k
        /\ stepCall = NoStepCall
        /\ last = Last("init", World(file, eng), "", -1)

\* file._read("a", key)
ReadKey ==
    /\ last.op = "init"
    /\ last' = Last("read", File_read(W0, "a", key), "a", -1)
    /\ UNCHANGED <<file, eng, stepCall, pc, iterYielded, iterBase, iterPrev, begun, stepObjs>> /\ Keep

NextIndex == ReadKey

SpecIndex == InitIndex /\ [][NextIndex]_vars

\* ------------------------------------------------------------------ attributes

\* A File opened for writing on a new container, for its attributes.
InitAttr == InitFile("w", EngineOn(<<>>), <<>>, [n \in Names |-> NoVar])

\* file.attrs[name] = data, or file[variable].attrs[name] = data
WriteAttributeOf(name, variable, data) ==
    /\ LET w == File_write_attribute(W0, name, data, variable)
       IN  /\ file' = w.file /\ eng' = w.eng
           /\ last' = [Last("write_attribute", w, "", -1) EXCEPT !.sel = <<variable, name>>]
           /\ stepCall' = StepCallAfter(w, "")
    /\ UNCHANGED <<pc, iterYielded, iterBase, iterPrev, begun, stepObjs>> /\ Keep

WriteAttribute ==
    \E name \in AttrNames, variable \in AttrVariables, data \in AttrValues :
        WriteAttributeOf(name, variable, data)

\* file.attrs[name], or file[variable].attrs[name]
ReadAttribute ==
    /\ \E name \in AttrNames, variable \in AttrVariables :
         last' = [Last("read_attribute", File_read_attribute(W0, name, variable), "", -1)
                     EXCEPT !.sel = <<variable, name>>]
    /\ UNCHANGED <<file, eng, stepCall, pc, iterYielded, iterBase, iterPrev, begun, stepObjs>> /\ Keep

NextAttr == WriteAttribute \/ ReadAttribute \/ Close

SpecAttr == InitAttr /\ [][NextAttr]_vars

\* ------------------------------------------------------------------ claims

Called(c) == \E j \in DOMAIN last.calls : last.calls[j] = c

NonCurrentStep == "Trying to access non-current step in streaming mode"

\* Whether the last read's resolved step selection is the file's current step.
ReadsCurrentStep == file.in_step /\ last.sel[1] = <<file.current_step, 1>>

C2_BreakThenResume ==
    /\ last.op = "iter_break" => ~file.in_step
    /\ pc = "iter" =>
          /\ iterYielded # <<>> /\ iterYielded[1] = iterBase
          /\ file.in_step /\ file.current_step = iterYielded[Len(iterYielded)]

\* C2's case: right after a break, a new iteration has yielded its first step.
C2_Witness ==
    /\ pc = "iter" /\ iterPrev /\ file.mode = "r"
    /\ iterYielded = <<iterBase>> /\ iterBase >= 1

\* C3: an iteration over the steps of a freshly opened file that runs to its
\* end (the engine answering BeginStep with OK or EndOfStream) yields the
\* steps 0 .. N-1 in order, ends without an exception and outside a step.
C3_CompleteIteration ==
    (/\ last.op = "iter" /\ pc = "idle"
     /\ iterBase = 0 /\ IsOpen(file) /\ last.name # "NotReady") =>
        /\ last.err = "none" /\ last.ret = [done |-> TRUE]
        /\ iterYielded = [j \in 1..EngineSteps(eng) |-> j - 1]
        /\ ~file.in_step

\* C3's case: a complete iteration over a container of at least two steps.
C3_Witness ==
    /\ last.op = "iter" /\ pc = "idle" /\ iterBase = 0 /\ last.ret = [done |-> TRUE]
    /\ Len(iterYielded) >= 2 /\ Len(iterYielded) = EngineSteps(eng)

\* Whether the Step object of the last operation is of a step the file is not in.
StaleStep == ~(file.in_step /\ file.current_step = last.step)

\* C4: in 'r' mode, step[name] with its dtype and shape does not raise, and
\* reading the data of a Step whose step is no longer the current one raises
\* ValueError with 'non-current step' in its message.
C4_StaleStepRead ==
    (file.mode = "r" /\ IsOpen(file)) =>
        /\ last.op = "step_getitem" => last.err = "none"
        /\ last.op = "step_read" /\ StaleStep =>
              last.err = "ValueError" /\ last.msg = NonCurrentStep

\* C5: in 'rra' mode a read of step n, 0 <= n < N, is permitted whatever the
\* file's in_step and current_step, and a Step object returns the data of its
\* own step.
C5_RandomAccessStepRead ==
    (file.mode = "rra" /\ IsOpen(file)) =>
        /\ (/\ last.op = "read" /\ last.sel # <<>>
            /\ last.sel[1][2] = 1 /\ last.sel[1][1] \in 0..(EngineSteps(eng) - 1))
              => last.err = "none"
        /\ (last.op = "step_read" /\ last.step \in 0..(EngineSteps(eng) - 1))
              => /\ last.err = "none"
                 /\ last.ret.steps = <<written[last.step + 1][last.name]>>

WriteOutsideStep == "Data needs to be written inside an active step."

\* C6: a File._write outside a step raises ValueError before any call of the
\* io or the engine: nothing is inquired, defined or put, and the engine and
\* its variables are as before.
C6_WriteOutsideStep ==
    [][(Write /\ ~file.in_step) =>
          /\ last'.err = "ValueError" /\ last'.msg = WriteOutsideStep
          /\ last'.calls = <<>>
          /\ eng' = eng /\ file' = file]_vars

\* C6's case: a write outside a step, on an open writer, was refused.
C6_Witness ==
    /\ last.op = "write" /\ ~file.in_step /\ file.mode = "w" /\ IsOpen(file)
    /\ last.err = "ValueError" /\ last.calls = <<>>

\* C7: close() of an open File calls the engine's Close once and leaves the
\* File closed (bool(file) false, 'closed' in its repr); close() of a closed
\* File raises ValueError 'File is not open' and calls nothing; a closed File
\* object never is open again.
C7_Close ==
    [][/\ Close =>
            IF IsOpen(file)
            THEN /\ last'.err = "none" /\ ~IsOpen(file')
                 /\ File_repr(file') = "adios2py.File(closed)"
                 /\ Cardinality({j \in DOMAIN last'.calls : last'.calls[j] = "Close"}) = 1
                 /\ eng'.closes = eng.closes + 1
            ELSE /\ last'.err = "ValueError" /\ last'.msg = "File is not open"
                 /\ last'.calls = <<>> /\ eng' = eng /\ file' = file
       /\ (~IsOpen(file) /\ gen' = gen) => ~IsOpen(file')]_vars

\* C7's case: a File was closed, and closed again.
C7_Witness ==
    /\ last.op = "close" /\ last.err = "ValueError" /\ eng.closes = 1 /\ ~IsOpen(file)

\* Every variable has been written in every step of the container.
FullyWritten ==
    /\ written # <<>>
    /\ \A j \in DOMAIN written : \A name \in Names : written[j][name] # NoData

\* The last operation read step last.step of a variable, the File reopened on
\* a fully written container and allowed to read that step: any step in 'rra'
\* mode, the active step in 'r' mode.
ReadBack(op) ==
    /\ gen = 1 /\ IsOpen(file) /\ FullyWritten
    /\ last.op = op /\ last.step \in 0..(Len(written) - 1)
    /\ \/ file.mode = "rra"
       \/ file.mode = "r" /\ file.in_step /\ file.current_step = last.step

\* The last read returned what was written: value, shape and dtype.
ReturnedWritten ==
    /\ last.err = "none"
    /\ last.ret.steps = <<written[last.step + 1][last.name]>>
    /\ last.ret.shape = writtenKind[last.name].shape
    /\ last.ret.dtype = writtenKind[last.name].dtype

\* File._read(name, (n,)) returns what was written in step n.
FileReadRoundTrip == ReadBack("read") => ReturnedWritten

\* C8: a container written step by step (steps.next(), every variable in every
\* step) and closed is read back exactly: variable `name` at step n, read in
\* 'rra' mode by step index or in 'r' mode during the n-th active step, is the
\* value written for it in step n, with the written shape and dtype; through
\* File._read and through the Step object of step n alike.
C8_RoundTrip ==
    /\ FileReadRoundTrip
    /\ ReadBack("step_read") => ReturnedWritten
\* The names of the calls a sequence of calls holds.
CallsOf(calls) == {calls[j] : j \in DOMAIN calls}

\* C10: a variable's shape is fixed by its first write.  A File._write inside
\* a step of a name the engine does not know defines the variable with the
\* shape of the buffer; a write of a known name with another shape fails
\* without a Put and leaves the engine as it was; and no step of a File
\* changes the shape of a variable once declared.
C10_ShapeFixedByFirstWrite ==
    [][/\ \A name \in Names, kind \in Kinds :
             (WriteOf(name, kind) /\ file.mode = "w" /\ file.in_step) =>
                 IF eng.vars[name] = NoVar
                 THEN /\ "DefineVariable" \in CallsOf(last'.calls)
                      /\ eng'.vars[name] # NoVar
                      /\ eng'.vars[name].shape = kind.shape
                 ELSE /\ "DefineVariable" \notin CallsOf(last'.calls)
                      /\ eng.vars[name].shape # kind.shape =>
                            /\ last'.err # "none"
                            /\ "Put" \notin CallsOf(last'.calls)
                            /\ eng' = eng
       /\ gen' = gen =>
             \A name \in Names :
                 eng.vars[name] # NoVar =>
                     /\ eng'.vars[name] # NoVar
                     /\ eng'.vars[name].shape = eng.vars[name].shape]_vars

\* A write of a variable with a shape other than its declared one has failed,
\* after an earlier write had declared it.
C10_Witness ==
    /\ last.op = "write" /\ last.err = "AssertionError"
    /\ file.mode = "w" /\ file.in_step
    /\ eng.vars[last.name] # NoVar
    /\ writtenKind[last.name] # NoVar
    /\ eng.vars[last.name].shape = writtenKind[last.name].shape
\* ---- numpy's indexing of an array of shape S, the reference of C9

\* len(range(*sl.indices(length))): the length of the dimension a slice leaves.
NumpySliceLen(sl, length) ==
    LET ix == SliceIndices(sl, length)
    IN  IF ix[3] > 0
        THEN IF ix[1] < ix[2] THEN (ix[2] - ix[1] + ix[3] - 1) \div ix[3] ELSE 0
        ELSE IF ix[2] < ix[1] THEN (ix[1] - ix[2] - ix[3] - 1) \div (-ix[3]) ELSE 0

\* The selectors of k that consume a dimension of the array (numpy's None does not).
Consuming(k) == {j \in DOMAIN k : k[j].k \in {"int", "slice"}}

\* numpy's expansion of the ellipsis: as many full slices as dimensions are left.
NumpyExpand(k, ndim) ==
    LET at == {j \in DOMAIN k : k[j].k = "ellipsis"}
    IN  IF at = {} THEN k
        ELSE LET j == Min(at)
             IN  SubSeq(k, 1, j - 1)
                 \o [x \in 1..(ndim - Cardinality(Consuming(k))) |-> FullSlice]
                 \o SubSeq(k, j + 1, Len(k))

\* The shape numpy gives S[args], args without ellipsis: None is a new axis of
\* length 1, an integer drops its dimension, a slice keeps its length, and the
\* dimensions no selector names are kept whole.
RECURSIVE NumpyWalk(_, _)
NumpyWalk(args, dims) ==
    IF args = <<>> THEN dims
    ELSE LET arg == Head(args)
         IN  IF arg.k = "none" THEN <<1>> \o NumpyWalk(Tail(args), dims)
             ELSE IF arg.k = "int" THEN NumpyWalk(Tail(args), Tail(dims))
             ELSE <<NumpySliceLen(arg, Head(dims))>> \o NumpyWalk(Tail(args), Tail(dims))

\* Whether numpy accepts S[args], args without ellipsis: integers within
\* their dimension, no slice step of 0, a dimension for every selector but None.
RECURSIVE NumpyAccepts(_, _)
NumpyAccepts(args, dims) ==
    IF args = <<>> THEN TRUE
    ELSE LET arg == Head(args)
         IN  IF arg.k = "none" THEN NumpyAccepts(Tail(args), dims)
             ELSE /\ dims # <<>>
                  /\ arg.k = "int" => -Head(dims) <= arg.i /\ arg.i < Head(dims)
                  /\ arg.k = "slice" => arg.step # <<0>>
                  /\ NumpyAccepts(Tail(args), Tail(dims))

\* Whether k is a valid index of a numpy array of shape S.
NumpyValid(S, k) ==
    /\ Cardinality({j \in DOMAIN k : k[j].k = "ellipsis"}) <= 1
    /\ Cardinality(Consuming(k)) <= Len(S)
    /\ NumpyAccepts(NumpyExpand(k, Len(S)), S)

\* The shape of S[k] in numpy, k valid.
NumpyShape(S, k) == NumpyWalk(NumpyExpand(k, Len(S)), S)

\* k with every None replaced by a full slice.
NoneAsFullSlice(k) == [j \in DOMAIN k |-> IF k[j].k = "none" THEN FullSlice ELSE k[j]]

\* Whether every slice of k has step 1 (or none given).
UnitStep(k) == \A j \in DOMAIN k : k[j].k = "slice" => k[j].step \in {<<>>, <<1>>}

\* C9 as stated: for every index expression valid for File._read and for
\* numpy (integers, unit-step slices, at most one ellipsis, None), the shape
\* of the buffer File._read returns is the shape numpy's indexing of an array
\* of the variable's shape (step dimension first) gives.
C9_NumpyShape ==
    (last.op = "read" /\ last.err = "none" /\ NumpyValid(VarShape, key)) =>
        last.ret.shape = NumpyShape(VarShape, key)

\* C9 amended: File._read treats a None as a full range, not as numpy's new
\* axis.  For every index expression of integers in range, non-empty
\* unit-step slices, at most one ellipsis and None that names no more
\* dimensions than the variable has, File._read succeeds and the shape of its
\* buffer is the shape numpy gives for the expression with every None
\* replaced by a full slice: a slice, a None or a padded range contributes
\* one dimension of its length, an integer none.
C9_ShapeNoneAsFullSlice ==
    LET k == NoneAsFullSlice(key)
    IN  (/\ last.op = "read" /\ UnitStep(k) /\ NumpyValid(VarShape, k)
         /\ \A j \in DOMAIN NumpyShape(VarShape, k) : NumpyShape(VarShape, k)[j] >= 1) =>
            /\ last.err = "none"
            /\ last.ret.shape = NumpyShape(VarShape, k)

\* A read whose key holds a None, an integer and a slice has returned a
\* buffer of two dimensions.
C9_Witness ==
    /\ last.op = "read" /\ last.err = "none"
    /\ \E j \in DOMAIN key : key[j] = NoneSel
    /\ \E j \in DOMAIN key : key[j].k = "int"
    /\ \E j \in DOMAIN key : key[j].k = "slice" /\ key[j] # FullSlice
    /\ Len(last.ret.shape) = 2
\* C11: writing an attribute (of the container or of a variable) that exists
\* with an equal value is a no-op: File._write_attribute returns without a
\* DefineAttribute and the attribute store is as it was.  DefineAttribute is
\* called only if the attribute is absent or its stored value differs.  After
\* a write that returned, the stored value equals the one written, so writing
\* it again changes nothing.
C11_EqualAttributeIsNoOp ==
    [][\A name \in AttrNames, variable \in AttrVariables, data \in AttrValues :
          (WriteAttributeOf(name, variable, data) /\ IsOpen(file)) =>
              LET old == eng.attrs[AttrName(name, variable)]
                  same == IF old = NoAttr THEN [err |-> "none", eq |-> FALSE]
                          ELSE ArrayEqual(old, data, IsFloating(old.dtype))
                  new == eng'.attrs[AttrName(name, variable)]
              IN  /\ (same.err = "none" /\ same.eq) =>
                        /\ last'.err = "none"
                        /\ "DefineAttribute" \notin CallsOf(last'.calls)
                        /\ eng' = eng
                  /\ "DefineAttribute" \in CallsOf(last'.calls) =>
                        old = NoAttr \/ (same.err = "none" /\ ~same.eq)
                  /\ last'.err = "none" =>
                        /\ new # NoAttr
                        /\ ArrayEqual(new, data, IsFloating(new.dtype)).eq
                        /\ File_write_attribute(World(file', eng'), name, data, variable).eng = eng'
                        /\ \A k \in AttrKeys : k # AttrName(name, variable) =>
                              eng'.attrs[k] = eng.attrs[k]]_vars

\* An attribute of a variable was written again with an equal value: no
\* DefineAttribute, and the value stored by the first write is still there.
C11_Witness ==
    /\ last.op = "write_attribute" /\ last.err = "none" /\ last.sel[1] = <<"a">>
    /\ "DefineAttribute" \notin CallsOf(last.calls)
    /\ eng.attrs[AttrName(last.sel[2], last.sel[1])] # NoAttr
\* The number of ellipses in k.
Ellipses(k) == Cardinality({j \in DOMAIN k : k[j].k = "ellipsis"})

\* k names more dimensions than S has: its selectors, the ellipsis apart.
TooManySelectors(S, k) == Ellipses(k) <= 1 /\ Len(k) - Ellipses(k) > Len(S)

\* C12: a read with more selectors than the variable has dimensions (the step
\* dimension included), with or without an ellipsis among them, fails with the
\* invalid-index kind, the IndexError also raised for two ellipses, and no
\* selection or Get reaches the engine.
C12_TooManySelectors ==
    (last.op = "read" /\ TooManySelectors(VarShape, key)) =>
        /\ last.err = "IndexError"
        /\ ~Called("SetStepSelection") /\ ~Called("SetSelection") /\ ~Called("Get")

\* Whether a slice of k, at the dimension of S it is resolved against, has a
\* step other than 1 or an empty or reversed range after clamping.
HasBadSlice(S, k) ==
    /\ Ellipses(k) <= 1
    /\ LET args == ExpandEllipsis(k, Len(S))
       IN  \E j \in DOMAIN args :
              /\ j <= Len(S) /\ args[j].k = "slice"
              /\ \/ args[j].step \notin {<<>>, <<1>>}
                 \/ SliceIndices(args[j], S[j])[1] >= SliceIndices(args[j], S[j])[2]

\* C13: a slice with a step other than 1, or whose range clamped to the
\* length of its dimension is empty or reversed, makes the read fail: an
\* exception, no buffer returned and no Get; for a slice on the step
\* dimension and on any data dimension.
C13_BadSliceFails ==
    (last.op = "read" /\ HasBadSlice(VarShape, key)) =>
        /\ last.err # "none"
        /\ last.ret = NoRet
        /\ ~Called("Get")

\* A read failed on an empty slice of a data dimension, and another on a
\* strided slice of the step dimension.
C13_Witness ==
    /\ last.op = "read" /\ last.err = "AssertionError" /\ Len(key) >= 1
    /\ Ellipses(key) = 0 /\ Len(key) <= Len(VarShape)
    /\ \/ Len(key) = 2 /\ key[1].k = "int" /\ key[2] = SliceSel(<<1>>, <<1>>, <<>>)
       \/ Len(key) = 1 /\ key[1] = SliceSel(<<>>, <<>>, <<2>>)
\* The exception the wrapper raises for an operation its mode does not
\* support (Step.__getitem__, File._write outside a step): a ValueError, where
\* IndexError is its kind for an invalid index.
InvalidMode == "ValueError"

\* Looking a variable up for reading through a Step of a File in 'w' mode is
\* rejected as invalid for the mode, before any engine call.
StepLookupInWriteMode ==
    (last.op \in {"step_getitem", "step_read"} /\ file.mode = "w" /\ IsOpen(file)) =>
        last.err = InvalidMode /\ last.calls = <<>>

\* C14: an operation the container's mode does not support is rejected with
\* the invalid-mode kind before any engine call: file.steps[i] on a File not
\* in 'rra' mode, and the lookup of a variable for reading through a Step of
\* a File in 'w' mode.
C14_InvalidMode ==
    /\ (last.op = "steps_getitem" /\ file.mode # "rra") =>
           last.err = InvalidMode /\ last.calls = <<>>
    /\ StepLookupInWriteMode
\* The last read set a selection on the variable or called Get.
Selected == Called("SetStepSelection") \/ Called("SetSelection") \/ Called("Get")

\* The exceptions of File._read's own validation: no such variable (ValueError),
\* two ellipses or a non-current step (IndexError), too many selectors or a bad
\* slice (AssertionError; ValueError for a slice step of 0), a selector of
\* another type (NotImplementedError).
LocalErrors == {"ValueError", "IndexError", "AssertionError", "NotImplementedError"}

\* C15: a File._read that fails its local validation (two ellipses, too many
\* selectors, a bad slice, a non-current step in streaming mode) has called
\* none of SetStepSelection, SetSelection and Get; these are called only once
\* the whole index is resolved (a selection for every dimension) and the step
\* selection is allowed in the File's mode.
C15_NoSelectionOnFailure ==
    last.op = "read" =>
        /\ last.err \in LocalErrors => ~Selected
        /\ Selected =>
              /\ last.sel # <<>>
              /\ Len(last.sel) = 1 + Len(eng.vars[last.name].shape)
              /\ file.mode = "rra" \/ ReadsCurrentStep
              /\ Called("Get")

\* A read of a data block of a step other than the current one, in 'r' mode
\* inside a step, was refused after the index had been resolved.
C15_Witness ==
    /\ last.op = "read" /\ file.mode = "r" /\ file.in_step
    /\ last.err = "IndexError" /\ last.msg = NonCurrentStep
    /\ Len(last.sel) = 2 /\ ~Selected
\* The BeginStep and EndStep calls the operation that led to the next state made.
StepCallsMade == StepCalls(last'.calls, last'.name)

\* The call before the j-th of StepCallsMade.
StepCallBefore(j) == IF j = 1 THEN stepCall ELSE StepCallsMade[j - 1]

Streaming == file.mode \in {"r", "w"}

BeginOK == [call |-> "BeginStep", status |-> "OK"]

\* in_step() is true exactly after a BeginStep that answered OK and before
\* the EndStep that follows it.
InStepIffBegun == Streaming => (file.in_step <=> stepCall = BeginOK)

\* A BeginStep that answers EndOfStream or another status but OK: the
\* operation raises, or EOFError ends the iteration, and the File is in no
\* step and its current step is the one before.
FailedBeginStep ==
    \A j \in DOMAIN StepCallsMade :
        (StepCallsMade[j].call = "BeginStep" /\ StepCallsMade[j].status # "OK") =>
            /\ last'.err \in {"EOFError", "RuntimeError"} \/ last'.ret = [done |-> TRUE]
            /\ last'.err # "none" <=> (last'.op # "iter" \/ StepCallsMade[j].status # "EndOfStream")
            /\ ~file'.in_step
            /\ file'.current_step = file.current_step

\* C16 as stated: in the streaming modes the engine's BeginStep and EndStep
\* calls strictly alternate, the first a BeginStep; in_step() is true
\* exactly between a BeginStep that answered OK and the next EndStep; and a
\* BeginStep with another answer raises and leaves in_step false and
\* current_step unchanged.
C16_StrictAlternation ==
    [][Streaming =>
          /\ \A j \in DOMAIN StepCallsMade :
                StepCallsMade[j].call =
                    (IF StepCallBefore(j).call = "BeginStep" THEN "EndStep" ELSE "BeginStep")
          /\ InStepIffBegun'
          /\ FailedBeginStep]_vars

\* C16 amended: the BeginStep calls that answer OK alternate with the EndStep
\* calls.  An EndStep is called only right after a BeginStep that answered
\* OK; a BeginStep is called first, after an EndStep, or after a BeginStep
\* that did not answer OK (which may be asked again); the rest as stated.
C16_AlternationOfBegunSteps ==
    [][Streaming =>
          /\ \A j \in DOMAIN StepCallsMade :
                IF StepCallsMade[j].call = "EndStep"
                THEN StepCallBefore(j) = BeginOK
                ELSE StepCallBefore(j) # BeginOK
          /\ InStepIffBegun'
          /\ FailedBeginStep]_vars

\* An iteration in 'r' mode ended a step and began the next, after an
\* earlier BeginStep had answered NotReady.
C16_Witness ==
    /\ file.mode = "r" /\ last.op = "iter" /\ file.in_step
    /\ Len(StepCalls(last.calls, last.name)) = 2
    /\ stepCall = BeginOK
    /\ file.current_step >= 1
\* In 'rra' mode _current_step stays within -1..N-1, and within 0..N-1 in a step.
CurrentStepInRange ==
    file.mode = "rra" =>
        /\ -1 <= file.current_step /\ file.current_step <= EngineSteps(eng) - 1
        /\ file.in_step => 0 <= file.current_step

\* _begin_step in 'rra' mode at or past the last step raises EOFError and
\* changes nothing; before it, it moves to the next step.
BeginsNextOrEOF ==
    IF file.current_step >= EngineSteps(eng) - 1
    THEN last'.err = "EOFError" /\ file' = file
    ELSE /\ last'.err = "none"
         /\ file'.current_step = file.current_step + 1 /\ file'.in_step

\* C17 as stated: in 'rra' mode with N steps, -1 <= _current_step <= N-1
\* always and 0 <= _current_step in a step; _begin_step raises EOFError and
\* changes neither _current_step nor in_step exactly when _current_step >= N-1
\* and otherwise increases _current_step by 1, on an open File; and the
\* engine's BeginStep and EndStep are never called.
C17_RandomAccessSteps ==
    [][file.mode = "rra" =>
          /\ CurrentStepInRange'
          /\ (BeginStep /\ IsOpen(file)) => BeginsNextOrEOF
          /\ StepCallsMade = <<>>]_vars

\* C17 amended: the rule of _begin_step is that of a call outside a step on
\* an open File; called in a step or on a closed File it raises
\* AssertionError and changes nothing, whatever _current_step is.
C17_RandomAccessStepsOutsideStep ==
    [][file.mode = "rra" =>
          /\ CurrentStepInRange'
          /\ BeginStep =>
                IF ~file.in_step /\ IsOpen(file) THEN BeginsNextOrEOF
                ELSE last'.err = "AssertionError" /\ file' = file
          /\ StepCallsMade = <<>>
          /\ stepCall' = NoStepCall]_vars

\* _begin_step has raised EOFError after the last of at least two steps.
C17_Witness ==
    /\ file.mode = "rra" /\ last.op = "begin_step" /\ last.err = "EOFError"
    /\ ~file.in_step /\ file.current_step = EngineSteps(eng) - 1
    /\ EngineSteps(eng) >= 2
\* C18: when a `with file.steps.next() as step:` block is left, its body
\* finished or an exception raised in it, the step has been ended: in_step()
\* is false and, in the streaming modes, the last call on the engine was the
\* EndStep of that step, so that the next step can be begun.
C18_WithBlockEndsStep ==
    last.op = "next_exit" =>
        /\ ~file.in_step
        /\ Streaming => stepCall = [call |-> "EndStep", status |-> ""]
====
